---- MODULE Spec2Model ----
(***************************************************************************)
(* The undefined-behaviour trap runtime (ubsan.c): one entry point per     *)
(* violation kind, the shared reporter ubsan_handle_error with its         *)
(* location-keyed test-and-set was_already_reported, and the halt wrapper  *)
(* ubsan_panic.  Execution contexts (threads) run the C statements one     *)
(* shared access at a time, so every interleaving of concurrent callers    *)
(* is explored.                                                            *)
(***************************************************************************)
EXTENDS Naturals, Sequences, FiniteSets, TLC

\* Number of concurrent execution contexts calling into the runtime.
NThreads == 2
\* Total number of entry-point invocations made in one behaviour.
MaxCalls == 2

Threads == 1..NThreads

(***************************************************************************)
(* uint32_t, kept as two 16-bit halves so that bit 31 is a real bit of the *)
(* word; &, | and ~ are computed bit by bit.                               *)
(***************************************************************************)
Half == 2^16

U32(h, l) == [hi |-> h, lo |-> l]

RECURSIVE BitAnd(_, _)
BitAnd(a, b) ==
    IF a = 0 \/ b = 0 THEN 0
    ELSE (a % 2) * (b % 2) + 2 * BitAnd(a \div 2, b \div 2)

RECURSIVE BitOr(_, _)
BitOr(a, b) ==
    IF a = 0 THEN b
    ELSE IF b = 0 THEN a
    ELSE (IF a % 2 = 1 \/ b % 2 = 1 THEN 1 ELSE 0) + 2 * BitOr(a \div 2, b \div 2)

and32(x, y) == U32(BitAnd(x.hi, y.hi), BitAnd(x.lo, y.lo))
or32(x, y) == U32(BitOr(x.hi, y.hi), BitOr(x.lo, y.lo))
not32(x) == U32((Half - 1) - x.hi, (Half - 1) - x.lo)
Zero32 == U32(0, 0)

BIT32(n) == IF n < 16 THEN U32(0, 2^n) ELSE U32(2^(n - 16), 0)

\* Faulty variant: the flag placed in bit 30.
UBSAN_LOC_REPORTED_bit30 == BIT32(30)
\* #define UBSAN_LOC_REPORTED BIT32(31)
UBSAN_LOC_REPORTED == BIT32(31)

(***************************************************************************)
(* A string is named by its literal and read character by character       *)
(* through Chars; a const char * is a string and an offset into it, so     *)
(* that memcmp and pointer arithmetic on __func__ are computed.            *)
(***************************************************************************)
func_prefix == <<"_","_","u","b","s","a","n","_","h","a","n","d","l","e">>
\* sizeof(func_prefix) counts the terminating NUL of the array
\* Faulty variant: the length of the string, without the NUL.
strlen_func_prefix == Len(func_prefix)
sizeof_func_prefix == Len(func_prefix) + 1

func_type_mismatch == "__ubsan_handle_type_mismatch"
func_type_mismatch_v1 == "__ubsan_handle_type_mismatch_v1"
func_add_overflow == "__ubsan_handle_add_overflow"
func_sub_overflow == "__ubsan_handle_sub_overflow"
func_mul_overflow == "__ubsan_handle_mul_overflow"
func_negate_overflow == "__ubsan_handle_negate_overflow"
func_divrem_overflow == "__ubsan_handle_divrem_overflow"
func_pointer_overflow == "__ubsan_handle_pointer_overflow"
func_shift_out_of_bounds == "__ubsan_handle_shift_out_of_bounds"
func_out_of_bounds == "__ubsan_handle_out_of_bounds"
func_builtin_unreachable == "__ubsan_handle_builtin_unreachable"
func_missing_return == "__ubsan_handle_missing_return"
func_vla_bound_not_positive == "__ubsan_handle_vla_bound_not_positive"
func_load_invalid_value == "__ubsan_handle_load_invalid_value"
func_nonnull_arg == "__ubsan_handle_nonnull_arg"
func_invalid_builtin == "__ubsan_handle_invalid_builtin"

\* The characters of a string literal, without the terminating NUL.
Chars(str) ==
    CASE str = func_type_mismatch ->
           <<"_","_","u","b","s","a","n","_","h","a","n","d","l","e","_","t","y","p","e","_","m","i","s","m","a","t","c","h">>
      [] str = func_type_mismatch_v1 ->
           <<"_","_","u","b","s","a","n","_","h","a","n","d","l","e","_","t","y","p","e","_","m","i","s","m","a","t","c","h","_","v","1">>
      [] str = func_add_overflow ->
           <<"_","_","u","b","s","a","n","_","h","a","n","d","l","e","_","a","d","d","_","o","v","e","r","f","l","o","w">>
      [] str = func_sub_overflow ->
           <<"_","_","u","b","s","a","n","_","h","a","n","d","l","e","_","s","u","b","_","o","v","e","r","f","l","o","w">>
      [] str = func_mul_overflow ->
           <<"_","_","u","b","s","a","n","_","h","a","n","d","l","e","_","m","u","l","_","o","v","e","r","f","l","o","w">>
      [] str = func_negate_overflow ->
           <<"_","_","u","b","s","a","n","_","h","a","n","d","l","e","_","n","e","g","a","t","e","_","o","v","e","r","f","l","o","w">>
      [] str = func_divrem_overflow ->
           <<"_","_","u","b","s","a","n","_","h","a","n","d","l","e","_","d","i","v","r","e","m","_","o","v","e","r","f","l","o","w">>
      [] str = func_pointer_overflow ->
           <<"_","_","u","b","s","a","n","_","h","a","n","d","l","e","_","p","o","i","n","t","e","r","_","o","v","e","r","f","l","o","w">>
      [] str = func_shift_out_of_bounds ->
           <<"_","_","u","b","s","a","n","_","h","a","n","d","l","e","_","s","h","i","f","t","_","o","u","t","_","o","f","_","b","o","u","n","d","s">>
      [] str = func_out_of_bounds ->
           <<"_","_","u","b","s","a","n","_","h","a","n","d","l","e","_","o","u","t","_","o","f","_","b","o","u","n","d","s">>
      [] str = func_builtin_unreachable ->
           <<"_","_","u","b","s","a","n","_","h","a","n","d","l","e","_","b","u","i","l","t","i","n","_","u","n","r","e","a","c","h","a","b","l","e">>
      [] str = func_missing_return ->
           <<"_","_","u","b","s","a","n","_","h","a","n","d","l","e","_","m","i","s","s","i","n","g","_","r","e","t","u","r","n">>
      [] str = func_vla_bound_not_positive ->
           <<"_","_","u","b","s","a","n","_","h","a","n","d","l","e","_","v","l","a","_","b","o","u","n","d","_","n","o","t","_","p","o","s","i","t","i","v","e">>
      [] str = func_load_invalid_value ->
           <<"_","_","u","b","s","a","n","_","h","a","n","d","l","e","_","l","o","a","d","_","i","n","v","a","l","i","d","_","v","a","l","u","e">>
      [] str = func_nonnull_arg ->
           <<"_","_","u","b","s","a","n","_","h","a","n","d","l","e","_","n","o","n","n","u","l","l","_","a","r","g">>
      [] str = func_invalid_builtin ->
           <<"_","_","u","b","s","a","n","_","h","a","n","d","l","e","_","i","n","v","a","l","i","d","_","b","u","i","l","t","i","n">>

\* The two entry points declared __noreturn.
NoReturnFuncs == {func_builtin_unreachable, func_missing_return}

(***************************************************************************)
(* Build contexts and the instrumented program.                            *)
(***************************************************************************)
Contexts == {"__KERNEL__", "__LDELF__", "TA"}

\* Values of the operand arguments (lhs, rhs, ptr, idx, ...): opaque pointers.
Operands == {"NULL", "ptr"}

source_location(file, ln, col) == [file_name |-> file, line |-> ln, column |-> col]

\* A static descriptor emitted by the compiler for one instrumented call
\* site: the handler the site calls, the location header, and the
\* kind-specific payload that follows the header.
Descriptor(fn, file, ln, col, pl) ==
    [func |-> fn, loc |-> source_location(file, ln, col), payload |-> pl]

ColMax == U32(2^15 - 1, Half - 1)

\* The instrumented programs explored: each is the table of its call sites.
Programs ==
    { << Descriptor(func_type_mismatch, "a.c", 10, U32(0, 5), "align8"),
         Descriptor(func_type_mismatch_v1, "a.c", 10, U32(0, 5), "align1") >>,
      << Descriptor(func_add_overflow, "a.c", 10, U32(0, 5), "int"),
         Descriptor(func_sub_overflow, "b.c", 20, U32(0, 0), "long") >>,
      << Descriptor(func_mul_overflow, "a.c", 10, ColMax, "int"),
         Descriptor(func_negate_overflow, "a.c", 10, U32(0, 5), "long") >>,
      << Descriptor(func_divrem_overflow, "a.c", 10, U32(0, 5), "int"),
         Descriptor(func_pointer_overflow, "a.c", 10, U32(1, 5), "int") >>,
      << Descriptor(func_shift_out_of_bounds, "a.c", 10, U32(0, 5), "int"),
         Descriptor(func_out_of_bounds, "a.c", 11, U32(0, 5), "int") >>,
      << Descriptor(func_builtin_unreachable, "a.c", 10, U32(0, 5), "none"),
         Descriptor(func_missing_return, "b.c", 20, U32(0, 7), "none") >>,
      << Descriptor(func_vla_bound_not_positive, "a.c", 10, U32(0, 5), "int"),
         Descriptor(func_load_invalid_value, "a.c", 10, U32(0, 6), "bool") >>,
      << Descriptor(func_nonnull_arg, "a.c", 10, U32(0, 5), "none"),
         Descriptor(func_invalid_builtin, "a.c", 10, U32(0, 9), "ctz") >>,
      << Descriptor(func_out_of_bounds, "a.c", 10, or32(U32(0, 5), BIT32(31)), "int"),
         Descriptor(func_missing_return, "a.c", 30, or32(U32(0, 1), BIT32(31)), "none") >> }

VARIABLES
    ctx,           \* the build context the runtime was compiled for
    should_panic,  \* static bool should_panic
    prog,          \* the call sites of the instrumented program (static data)
    loc,           \* loc[s]: the struct source_location of call site s
    th,            \* th[t]: the stack frame of execution context t
    console,       \* the lines written by EMSG_RAW, oldest first
    done           \* history: done[t] lists the invocations t has returned from

vars == <<ctx, should_panic, prog, loc, th, console, done>>

Sites == DOMAIN prog

\* The frame of a context that is executing instrumented code, outside the
\* runtime.
NoFrame ==
    [pc |-> "caller", f |-> [str |-> "", off |-> 0], loc |-> 0, panic_flag |-> FALSE,
     column |-> Zero32, cont |-> "none", reported |-> "pending", cas |-> FALSE,
     prims |-> <<>>]

\* Invocations started so far, over all contexts.
Sum(n) ==
    LET RECURSIVE S(_)
        S(k) == IF k = 0 THEN 0 ELSE n[k] + S(k - 1)
    IN  S(NThreads)
NCalls ==
    Sum([t \in Threads |-> Len(done[t]) + (IF th[t].pc = "caller" THEN 0 ELSE 1)])

InitWith(flags) ==
    /\ ctx \in Contexts
    /\ should_panic \in flags
    /\ prog \in Programs
    /\ loc = [s \in DOMAIN prog |-> prog[s].loc]
    /\ th = [t \in Threads |-> NoFrame]
    /\ console = <<>>
    /\ done = [t \in Threads |-> <<>>]

\* static bool should_panic = true;
\* Faulty variant: the flag initialised to false.
Init_should_panic_false == InitWith({FALSE})
Init == InitWith({TRUE})

(***************************************************************************)
(* The halt primitives and the external compare-and-swap.                  *)
(***************************************************************************)
\* The primitive ubsan_panic() is compiled to call, by build context.
\* Faulty variant: the #else branch taken in every build context.
Primitive_else_branch(c) == [name |-> "_utee_panic", arg |-> "TEE_ERROR_GENERIC"]
Primitive(c) ==
    CASE c = "__KERNEL__" -> [name |-> "panic", arg |-> "none"]
      [] c = "__LDELF__" -> [name |-> "_ldelf_panic", arg |-> "2"]
      [] OTHER -> [name |-> "_utee_panic", arg |-> "TEE_ERROR_GENERIC"]

\* atomic_cas_u32(p, oval, nval): one atomic read-modify-write of *p.  It
\* stores nval and returns true when *p equals *oval; otherwise it copies
\* *p to *oval and returns false.
atomic_cas_u32(mem, oval, nval) ==
    IF mem = oval
    THEN [ret |-> TRUE, mem |-> nval, oval |-> oval]
    ELSE [ret |-> FALSE, mem |-> mem, oval |-> mem]

(***************************************************************************)
(* was_already_reported                                                    *)
(***************************************************************************)
\* if (column & UBSAN_LOC_REPORTED)
\* Faulty variant: the test looks at bit 30.
column_is_reported_bit30(column) == and32(column, BIT32(30)) # Zero32
column_is_reported(column) == and32(column, UBSAN_LOC_REPORTED) # Zero32

\* return !atomic_cas_u32(&loc->column, &column, column | UBSAN_LOC_REPORTED);
\* gives the return value, the new *loc->column and the new local column.
\* Faulty variant: a plain store in place of the compare-and-swap.
cas_column_plain_store(mem, column) ==
    [ret |-> FALSE, mem |-> or32(column, UBSAN_LOC_REPORTED), column |-> column]
\* Faulty variant: the result of the compare-and-swap returned without the !.
cas_column_no_negation(mem, column) ==
    LET r == atomic_cas_u32(mem, column, or32(column, UBSAN_LOC_REPORTED))
    IN  [ret |-> r.ret, mem |-> r.mem, column |-> r.oval]
cas_column(mem, column) ==
    LET r == atomic_cas_u32(mem, column, or32(column, UBSAN_LOC_REPORTED))
    IN  [ret |-> ~r.ret, mem |-> r.mem, column |-> r.oval]

(***************************************************************************)
(* ubsan_handle_error                                                      *)
(***************************************************************************)
\* const char *f = func;
ptr_to(str) == [str |-> str, off |-> 0]
\* The characters a const char * points at, up to the terminating NUL.
StrAt(f) == SubSeq(Chars(f.str), f.off + 1, Len(Chars(f.str)))

\* if (!memcmp(f, func_prefix, sizeof(func_prefix) - 1)) f += sizeof(func_prefix);
\* memcmp is zero (FALSE here) when the first n characters agree.
memcmp_prefix(f, n) ==
    ~(Len(StrAt(f)) >= n /\ SubSeq(StrAt(f), 1, n) = SubSeq(func_prefix, 1, n))
skip_prefix(f) ==
    IF ~memcmp_prefix(f, sizeof_func_prefix - 1)
    THEN [f EXCEPT !.off = @ + sizeof_func_prefix]
    ELSE f

\* The argument list of EMSG_RAW at the emission.
emsg_args(f, l) ==
    [f |-> f, file_name |-> l.file_name, line |-> l.line,
     column |-> and32(l.column, not32(UBSAN_LOC_REPORTED))]

\* ubsan_handle_error returns (with frame fr) into the entry point that
\* called it, which either returns to the instrumented code or goes on to
\* call ubsan_panic().
\* Faulty variant: an early return with panic_flag set halts all the same.
ReturnToEntry_halt_on_panic_flag(t, fr) ==
    IF fr.cont = "ubsan_panic" \/ fr.panic_flag
    THEN /\ th' = [th EXCEPT ![t] = [fr EXCEPT !.pc = "ubsan_panic"]]
         /\ UNCHANGED done
    ELSE /\ th' = [th EXCEPT ![t] = NoFrame]
         /\ done' = [done EXCEPT ![t] =
                        Append(@, [site |-> fr.loc, reported |-> fr.reported,
                                   column |-> fr.column, cas |-> fr.cas])]
ReturnToEntry(t, fr) ==
    IF fr.cont = "ubsan_panic"
    THEN /\ th' = [th EXCEPT ![t] = [fr EXCEPT !.pc = "ubsan_panic"]]
         /\ UNCHANGED done
    ELSE /\ th' = [th EXCEPT ![t] = NoFrame]
         /\ done' = [done EXCEPT ![t] =
                        Append(@, [site |-> fr.loc, reported |-> fr.reported,
                                   column |-> fr.column, cas |-> fr.cas])]

\* Control reaches the instrumented call site data_ on context t, whose
\* compiler-emitted code calls the handler named fn.  Contexts are
\* interchangeable: they are numbered in the order of their first call.
AtCallSite(t, data_, fn) ==
    /\ th[t].pc = "caller"
    /\ data_ \in Sites
    /\ prog[data_].func = fn
    /\ NCalls < MaxCalls
    /\ \A u \in 1..(t - 1) : th[u].pc # "caller" \/ done[u] # <<>>

\* The call ubsan_handle_error(func, loc, panic_flag) made by an entry point;
\* cont is what the entry point does once the call has returned.
ubsan_handle_error(t, func, l, panic_flag, cont) ==
    /\ th' = [th EXCEPT ![t] =
                 [NoFrame EXCEPT !.pc = "war_load", !.f = ptr_to(func), !.loc = l,
                                 !.panic_flag = panic_flag, !.cont = cont]]
    /\ UNCHANGED <<ctx, should_panic, prog, loc, console, done>>

\* uint32_t column = loc->column; if (column & UBSAN_LOC_REPORTED) return true;
was_already_reported_load(t) ==
    LET fr == th[t]
        column == loc[fr.loc].column
    IN  /\ fr.pc = "war_load"
        /\ IF column_is_reported(column)
           THEN ReturnToEntry(t, [fr EXCEPT !.column = column, !.reported = "true"])
           ELSE /\ th' = [th EXCEPT ![t] = [fr EXCEPT !.pc = "war_cas", !.column = column]]
                /\ UNCHANGED done
        /\ UNCHANGED <<ctx, should_panic, prog, loc, console>>

\* return !atomic_cas_u32(...); then, in ubsan_handle_error, the early return
\* or the stripping of the prefix from f.
\* Faulty variant: a failed compare-and-swap is retried from the load.
was_already_reported_cas_retry(t) ==
    LET fr == th[t]
        r == cas_column(loc[fr.loc].column, fr.column)
    IN  /\ fr.pc = "war_cas"
        /\ loc' = [loc EXCEPT ![fr.loc] = [@ EXCEPT !.column = r.mem]]
        /\ th' = [th EXCEPT ![t] =
                     IF r.ret
                     THEN [fr EXCEPT !.pc = "war_load", !.column = r.column,
                                     !.cas = TRUE]
                     ELSE [fr EXCEPT !.pc = "emsg", !.column = r.column,
                                     !.reported = "false", !.cas = TRUE,
                                     !.f = skip_prefix(fr.f)]]
        /\ UNCHANGED <<ctx, should_panic, prog, console, done>>
was_already_reported_cas(t) ==
    LET fr == th[t]
        r == cas_column(loc[fr.loc].column, fr.column)
    IN  /\ fr.pc = "war_cas"
        /\ loc' = [loc EXCEPT ![fr.loc] = [@ EXCEPT !.column = r.mem]]
        /\ IF r.ret
           THEN ReturnToEntry(t, [fr EXCEPT !.column = r.column, !.reported = "true",
                                            !.cas = TRUE])
           ELSE /\ th' = [th EXCEPT ![t] =
                             [fr EXCEPT !.pc = "emsg", !.column = r.column,
                                        !.reported = "false", !.cas = TRUE,
                                        !.f = skip_prefix(fr.f)]]
                /\ UNCHANGED done
        /\ UNCHANGED <<ctx, should_panic, prog, console>>

\* if (panic_flag) ubsan_panic();
\* Faulty variant: panic_flag ignored.
panic_after_emsg_always(panic_flag) == TRUE
panic_after_emsg(panic_flag) == panic_flag

\* EMSG_RAW(...); if (panic_flag) ubsan_panic();
\* Each line carries, besides the printed arguments, the context and call
\* number of the invocation that wrote it and the call site it is about.
\* Faulty variant: the halt is entered first, the line is never written.
ubsan_handle_error_emsg_halt_first(t) ==
    LET fr == th[t]
        line == emsg_args(fr.f, loc[fr.loc])
                  @@ [by |-> t, call |-> Len(done[t]) + 1, site |-> fr.loc]
    IN  /\ fr.pc = "emsg"
        /\ IF panic_after_emsg(fr.panic_flag)
           THEN /\ th' = [th EXCEPT ![t] = [fr EXCEPT !.pc = "ubsan_panic"]]
                /\ UNCHANGED <<console, done>>
           ELSE /\ console' = Append(console, line)
                /\ ReturnToEntry(t, fr)
        /\ UNCHANGED <<ctx, should_panic, prog, loc>>
ubsan_handle_error_emsg(t) ==
    LET fr == th[t]
        line == emsg_args(fr.f, loc[fr.loc])
                  @@ [by |-> t, call |-> Len(done[t]) + 1, site |-> fr.loc]
    IN  /\ fr.pc = "emsg"
        /\ console' = Append(console, line)
        /\ IF panic_after_emsg(fr.panic_flag)
           THEN /\ th' = [th EXCEPT ![t] = [fr EXCEPT !.pc = "ubsan_panic"]]
                /\ UNCHANGED done
           ELSE ReturnToEntry(t, fr)
        /\ UNCHANGED <<ctx, should_panic, prog, loc>>

(***************************************************************************)
(* ubsan_panic                                                             *)
(***************************************************************************)
\* panic(); or _ldelf_panic(2); or _utee_panic(TEE_ERROR_GENERIC);
ubsan_panic(t) ==
    LET fr == th[t] IN
    /\ fr.pc = "ubsan_panic"
    /\ th' = [th EXCEPT ![t] =
                 [fr EXCEPT !.pc = "primitive", !.prims = Append(@, Primitive(ctx))]]
    /\ UNCHANGED <<ctx, should_panic, prog, loc, console, done>>

\* The primitive is not known to be noreturn: it may come back.  (When it
\* does not, the context simply takes no further step.)
primitive_returns(t) ==
    LET fr == th[t] IN
    /\ fr.pc = "primitive"
    /\ th' = [th EXCEPT ![t] = [fr EXCEPT !.pc = "while1"]]
    /\ UNCHANGED <<ctx, should_panic, prog, loc, console, done>>

\* while (1) ;
\* Faulty variant: no loop, ubsan_panic returns to its caller.
ubsan_panic_while1_falls_through(t) ==
    /\ th[t].pc = "while1"
    /\ ReturnToEntry(t, [th[t] EXCEPT !.cont = "return"])
    /\ UNCHANGED <<ctx, should_panic, prog, loc, console>>
ubsan_panic_while1(t) ==
    /\ th[t].pc = "while1"
    /\ UNCHANGED vars

(***************************************************************************)
(* The entry points                                                        *)
(***************************************************************************)
__ubsan_handle_type_mismatch(t, data, ptr) ==
    /\ AtCallSite(t, data, func_type_mismatch)
    /\ ubsan_handle_error(t, func_type_mismatch, data, should_panic, "return")

\* Faulty variant: the unused operand decides the panic flag.
__ubsan_handle_type_mismatch_v1_by_ptr(t, data_, ptr) ==
    /\ AtCallSite(t, data_, func_type_mismatch_v1)
    /\ ubsan_handle_error(t, func_type_mismatch_v1, data_,
                          should_panic /\ ptr # "NULL", "return")
__ubsan_handle_type_mismatch_v1(t, data_, ptr) ==
    /\ AtCallSite(t, data_, func_type_mismatch_v1)
    /\ ubsan_handle_error(t, func_type_mismatch_v1, data_, should_panic, "return")

__ubsan_handle_add_overflow(t, data_, lhs, rhs) ==
    /\ AtCallSite(t, data_, func_add_overflow)
    /\ ubsan_handle_error(t, func_add_overflow, data_, should_panic, "return")

__ubsan_handle_sub_overflow(t, data_, lhs, rhs) ==
    /\ AtCallSite(t, data_, func_sub_overflow)
    /\ ubsan_handle_error(t, func_sub_overflow, data_, should_panic, "return")

__ubsan_handle_mul_overflow(t, data_, lhs, rhs) ==
    /\ AtCallSite(t, data_, func_mul_overflow)
    /\ ubsan_handle_error(t, func_mul_overflow, data_, should_panic, "return")

__ubsan_handle_negate_overflow(t, data_, old_val) ==
    /\ AtCallSite(t, data_, func_negate_overflow)
    /\ ubsan_handle_error(t, func_negate_overflow, data_, should_panic, "return")

__ubsan_handle_divrem_overflow(t, data_, lhs, rhs) ==
    /\ AtCallSite(t, data_, func_divrem_overflow)
    /\ ubsan_handle_error(t, func_divrem_overflow, data_, should_panic, "return")

__ubsan_handle_pointer_overflow(t, data_, lhs, rhs) ==
    /\ AtCallSite(t, data_, func_pointer_overflow)
    /\ ubsan_handle_error(t, func_pointer_overflow, data_, should_panic, "return")

__ubsan_handle_shift_out_of_bounds(t, data_, lhs, rhs) ==
    /\ AtCallSite(t, data_, func_shift_out_of_bounds)
    /\ ubsan_handle_error(t, func_shift_out_of_bounds, data_, should_panic, "return")

__ubsan_handle_out_of_bounds(t, data_, idx) ==
    /\ AtCallSite(t, data_, func_out_of_bounds)
    /\ ubsan_handle_error(t, func_out_of_bounds, data_, should_panic, "return")

\* ubsan_handle_error(__func__, &data->loc, false); ubsan_panic();
__ubsan_handle_builtin_unreachable(t, data_) ==
    /\ AtCallSite(t, data_, func_builtin_unreachable)
    /\ ubsan_handle_error(t, func_builtin_unreachable, data_, FALSE, "ubsan_panic")

\* Faulty variant: the trailing ubsan_panic() is missing.
__ubsan_handle_missing_return_no_panic(t, data_) ==
    /\ AtCallSite(t, data_, func_missing_return)
    /\ ubsan_handle_error(t, func_missing_return, data_, FALSE, "return")
__ubsan_handle_missing_return(t, data_) ==
    /\ AtCallSite(t, data_, func_missing_return)
    /\ ubsan_handle_error(t, func_missing_return, data_, FALSE, "ubsan_panic")

__ubsan_handle_vla_bound_not_positive(t, data_, bound) ==
    /\ AtCallSite(t, data_, func_vla_bound_not_positive)
    /\ ubsan_handle_error(t, func_vla_bound_not_positive, data_, should_panic, "return")

__ubsan_handle_load_invalid_value(t, data_, val) ==
    /\ AtCallSite(t, data_, func_load_invalid_value)
    /\ ubsan_handle_error(t, func_load_invalid_value, data_, should_panic, "return")

\* arg_no is passed only when __GCC_VERSION < 60000; it is unused either way.
__ubsan_handle_nonnull_arg(t, data_, arg_no) ==
    /\ AtCallSite(t, data_, func_nonnull_arg)
    /\ ubsan_handle_error(t, func_nonnull_arg, data_, should_panic, "return")

__ubsan_handle_invalid_builtin(t, data_) ==
    /\ AtCallSite(t, data_, func_invalid_builtin)
    /\ ubsan_handle_error(t, func_invalid_builtin, data_, should_panic, "return")

(***************************************************************************)
(* The specifications                                                      *)
(***************************************************************************)
\* One statement of the runtime executed by context t.
Step(t) ==
    \/ was_already_reported_load(t)
    \/ was_already_reported_cas(t)
    \/ ubsan_handle_error_emsg(t)
    \/ ubsan_panic(t)

Next ==
    \E t \in Threads :
        \/ \E d \in Sites, p \in Operands : __ubsan_handle_type_mismatch(t, d, p)
        \/ \E d \in Sites, p \in Operands : __ubsan_handle_type_mismatch_v1(t, d, p)
        \/ \E d \in Sites, l \in Operands, r \in Operands : __ubsan_handle_add_overflow(t, d, l, r)
        \/ \E d \in Sites, l \in Operands, r \in Operands : __ubsan_handle_sub_overflow(t, d, l, r)
        \/ \E d \in Sites, l \in Operands, r \in Operands : __ubsan_handle_mul_overflow(t, d, l, r)
        \/ \E d \in Sites, o \in Operands : __ubsan_handle_negate_overflow(t, d, o)
        \/ \E d \in Sites, l \in Operands, r \in Operands : __ubsan_handle_divrem_overflow(t, d, l, r)
        \/ \E d \in Sites, l \in Operands, r \in Operands : __ubsan_handle_pointer_overflow(t, d, l, r)
        \/ \E d \in Sites, l \in Operands, r \in Operands : __ubsan_handle_shift_out_of_bounds(t, d, l, r)
        \/ \E d \in Sites, i \in Operands : __ubsan_handle_out_of_bounds(t, d, i)
        \/ \E d \in Sites : __ubsan_handle_builtin_unreachable(t, d)
        \/ \E d \in Sites : __ubsan_handle_missing_return(t, d)
        \/ \E d \in Sites, b \in Operands : __ubsan_handle_vla_bound_not_positive(t, d, b)
        \/ \E d \in Sites, v \in Operands : __ubsan_handle_load_invalid_value(t, d, v)
        \/ \E d \in Sites, n \in Operands : __ubsan_handle_nonnull_arg(t, d, n)
        \/ \E d \in Sites : __ubsan_handle_invalid_builtin(t, d)
        \/ Step(t)
        \/ primitive_returns(t)
        \/ ubsan_panic_while1(t)

\* The program as built: should_panic is true.
Spec == Init /\ [][Next]_vars

\* The program as built, each context inside the runtime executing on.
FairSpec == Init /\ [][Next]_vars /\ \A t \in Threads : WF_vars(Step(t))

\* The runtime under both values of the build-time initialiser of
\* should_panic (the source sets it to true and never assigns it).
InitPolicy == InitWith(BOOLEAN)
SpecPolicy == InitPolicy /\ [][Next]_vars

\* A context that is inside the runtime keeps executing its statements.
FairSpecPolicy == InitPolicy /\ [][Next]_vars /\ \A t \in Threads : WF_vars(Step(t))

(***************************************************************************)
(* Views of the state used by the properties                               *)
(***************************************************************************)
\* Bit 31 and the low 31 bits of a word, read off its representation.
Bit31(w) == w.hi >= 2^15
Low31(w) == U32(w.hi % 2^15, w.lo)
WithBit31(w) == U32((w.hi % 2^15) + 2^15, w.lo)

\* The column the compiler emitted for site s, and whether its bit 31 is clear.
Col0(s) == prog[s].loc.column
InitClear(s) == ~Bit31(Col0(s))
Fatal(s) == prog[s].func \in NoReturnFuncs

\* An invocation is <<t, k>>: the k-th call made by context t.
InFlight(t) == th[t].pc # "caller"
Invs == {i \in Threads \X (1..MaxCalls) :
            i[2] <= Len(done[i[1]]) + (IF InFlight(i[1]) THEN 1 ELSE 0)}
Rec(i) ==
    IF i[2] <= Len(done[i[1]])
    THEN done[i[1]][i[2]] @@ [pc |-> "returned"]
    ELSE [site |-> th[i[1]].loc, reported |-> th[i[1]].reported,
          column |-> th[i[1]].column, cas |-> th[i[1]].cas, pc |-> th[i[1]].pc]
InvsOn(s) == {i \in Invs : Rec(i).site = s}
PanicPcs == {"ubsan_panic", "primitive", "while1"}
HaltPcs == {"primitive", "while1"}
Finished(i) == Rec(i).pc \in {"returned"} \cup HaltPcs
LinesOf(i) == {n \in DOMAIN console : console[n].by = i[1] /\ console[n].call = i[2]}
LinesOn(s) == {n \in DOMAIN console : console[n].site = s}


(***************************************************************************)
(* Properties                                                              *)
(***************************************************************************)
\* C1 (concurrent dedup): for a call site whose reported bit is initially
\* clear, never more than one line is written for it, and once every
\* invocation on it has finished (returned or reached the halt) exactly one
\* line has been written, whatever the number of callers and the interleaving.
C1_ConcurrentDedup ==
    \A s \in Sites : InitClear(s) =>
        /\ Cardinality(LinesOn(s)) <= 1
        /\ (InvsOn(s) # {} /\ \A i \in InvsOn(s) : Finished(i))
              => Cardinality(LinesOn(s)) = 1

\* Two contexts raced on one fresh site, the loser lost the compare-and-swap,
\* and both have finished.
C1_Witness ==
    \E s \in Sites :
        /\ InitClear(s)
        /\ \A i \in InvsOn(s) : Finished(i)
        /\ Cardinality(LinesOn(s)) = 1
        /\ \E i, j \in InvsOn(s) :
              /\ i[1] # j[1]
              /\ Rec(i).reported = "false"
              /\ Rec(j).reported = "true" /\ Rec(j).cas

\* C2 (fatal kinds always halt): an invocation of
\* __ubsan_handle_builtin_unreachable or __ubsan_handle_missing_return never
\* returns to its caller, and again and again every such invocation in
\* progress is inside the halt primitive or the idle loop behind it (so each
\* one, never returning, gets there), for both values of should_panic and
\* whether or not the location was already reported.
C2_FatalAlwaysHalts ==
    /\ [][\A t \in Threads :
             (InFlight(t) /\ Fatal(th[t].loc)) => th'[t].pc # "caller"]_vars
    /\ []<>(\A t \in Threads :
               (InFlight(t) /\ Fatal(th[t].loc)) => th[t].pc \in HaltPcs)

\* A fatal entry point halted on an already reported location with
\* should_panic false.
C2_Witness ==
    \E t \in Threads :
        /\ InFlight(t) /\ Fatal(th[t].loc)
        /\ th[t].pc \in HaltPcs
        /\ th[t].reported = "true"
        /\ ~should_panic

\* The first call context t made on site s.
CallsOn(t, s) == {k \in 1..MaxCalls : <<t, k>> \in InvsOn(s)}
FirstCallOn(t, s) == CHOOSE k \in CallsOn(t, s) : \A m \in CallsOn(t, s) : k <= m

\* C3 (sequential idempotence): with should_panic false, for a non-fatal call
\* site whose reported bit is initially clear: at most one line is ever
\* written for it, it is written by a first call on the site, exactly one has
\* been written whenever calls on the site have returned and none is in
\* progress, no call on it halts, and the low 31 bits of its column never
\* change.
C3_SequentialIdempotence ==
    ~should_panic =>
        \A s \in Sites : (InitClear(s) /\ ~Fatal(s)) =>
            /\ Cardinality(LinesOn(s)) <= 1
            /\ \A n \in LinesOn(s) :
                  console[n].call = FirstCallOn(console[n].by, s)
            /\ (InvsOn(s) # {} /\ \A i \in InvsOn(s) : Rec(i).pc = "returned")
                  => Cardinality(LinesOn(s)) = 1
            /\ \A i \in InvsOn(s) : Rec(i).pc \notin PanicPcs
            /\ Low31(loc[s].column) = Col0(s)

\* One context called the same fresh non-fatal site twice in sequence and
\* returned both times.
C3_Witness ==
    /\ ~should_panic
    /\ \E t \in Threads, s \in Sites :
          /\ InitClear(s) /\ ~Fatal(s)
          /\ Len(done[t]) >= 2
          /\ done[t][1].site = s /\ done[t][2].site = s
          /\ done[t][1].reported = "false" /\ done[t][2].reported = "true"
          /\ Cardinality(LinesOn(s)) = 1

\* C4 (policy respected for non-fatal kinds): a non-fatal invocation that
\* found its location not yet reported writes its line and then returns when
\* should_panic is false, and writes its line and then calls ubsan_panic
\* (never returning) when should_panic is true; with should_panic false no
\* non-fatal invocation is ever in ubsan_panic.
C4_PolicyRespected ==
    \A i \in Invs : ~Fatal(Rec(i).site) =>
        /\ (~should_panic) => Rec(i).pc \notin PanicPcs
        /\ Rec(i).reported = "false" =>
              /\ Rec(i).pc \in {"emsg", "returned"} \cup PanicPcs
              /\ Rec(i).pc # "emsg" => Cardinality(LinesOf(i)) = 1
              /\ Rec(i).pc = "returned" => ~should_panic
              /\ Rec(i).pc \in PanicPcs => should_panic
        /\ Rec(i).pc \in PanicPcs => Rec(i).reported = "false"

\* With should_panic false a non-fatal invocation won the location, wrote its
\* line and returned.
C4_Witness ==
    /\ ~should_panic
    /\ \E i \in Invs :
          /\ ~Fatal(Rec(i).site)
          /\ Rec(i).reported = "false"
          /\ Rec(i).pc = "returned"
          /\ Cardinality(LinesOf(i)) = 1

\* C5 (halt is non-returning): a context that has entered ubsan_panic stays
\* inside it in every build context, and once the underlying primitive has
\* returned the context stays in the idle loop for ever.
C5_HaltNeverReturns ==
    [][\A t \in Threads :
          /\ th[t].pc \in PanicPcs => th'[t].pc \in PanicPcs
          /\ th[t].pc = "while1" => th'[t] = th[t]]_vars

\* The primitive returned and the context sits in the idle loop.
C5_Witness ==
    \E t \in Threads : th[t].pc = "while1" /\ Len(th[t].prims) = 1

\* The invocations on site s for which was_already_reported returned false.
Winners(s) == {i \in InvsOn(s) : Rec(i).reported = "false"}

\* C6 as stated: on a site whose reported bit is initially clear exactly one
\* invocation takes the emission/halt branch, and every other invocation
\* returns silently, without emitting and without halting.
C6_Original ==
    \A s \in Sites : InitClear(s) =>
        /\ Cardinality(Winners(s)) <= 1
        /\ \A i \in InvsOn(s) : Rec(i).reported = "true" =>
              /\ LinesOf(i) = {}
              /\ Rec(i).pc \notin PanicPcs

\* C6 (exactly one invocation takes the emission branch): on a site whose
\* reported bit is initially clear at most one invocation finds it not yet
\* reported, exactly one once any invocation has its answer; only that one
\* writes a line, and it returns only when the entry point is non-fatal and
\* should_panic is false.  Every other invocation writes nothing; it returns
\* to its caller when the entry point is non-fatal, and goes on into
\* ubsan_panic when the entry point is one of the two fatal ones.
C6_ExactlyOneEmits ==
    \A s \in Sites : InitClear(s) =>
        /\ Cardinality(Winners(s)) <= 1
        /\ (\E i \in InvsOn(s) : Rec(i).reported # "pending")
              => Cardinality(Winners(s)) = 1
        /\ \A n \in LinesOn(s) : <<console[n].by, console[n].call>> \in Winners(s)
        /\ \A i \in Winners(s) :
              /\ Rec(i).pc \in {"emsg", "returned"} \cup PanicPcs
              /\ Rec(i).pc = "returned" => (~Fatal(s) /\ ~should_panic)
        /\ \A i \in InvsOn(s) : Rec(i).reported = "true" =>
              /\ LinesOf(i) = {}
              /\ IF Fatal(s) THEN Rec(i).pc \in PanicPcs ELSE Rec(i).pc = "returned"

\* On one fresh site a winner has written its line and gone to the halt while
\* a loser of the compare-and-swap has returned silently.
C6_Witness ==
    \E s \in Sites :
        /\ InitClear(s) /\ ~Fatal(s)
        /\ \E i, j \in InvsOn(s) :
              /\ Rec(i).reported = "false" /\ Rec(i).pc \in HaltPcs
              /\ Cardinality(LinesOf(i)) = 1
              /\ Rec(j).reported = "true" /\ Rec(j).cas /\ Rec(j).pc = "returned"

\* C7 as stated, for the program as built and a location reported by an
\* earlier invocation: an invocation of any entry point that reads its
\* location's reported bit as set returns to its caller at once, writing
\* nothing and not calling ubsan_panic.
C7_Original ==
    [][\A t \in Threads :
          (/\ should_panic
           /\ th[t].pc = "war_load"
           /\ InitClear(th[t].loc)
           /\ Bit31(loc[th[t].loc].column)
           /\ th'[t] # th[t])
          => (console' = console /\ th'[t].pc = "caller")]_vars

\* C7 (already-reported case): for either value of should_panic, an
\* invocation that reads its location's reported bit as set writes nothing to
\* the console and nothing to the location, then and later; a non-fatal entry
\* point returns to its caller at once, while the two fatal entry points go
\* on to call ubsan_panic.
C7_AlreadyReported ==
    [][\A t \in Threads :
          /\ (th[t].pc = "war_load" /\ Bit31(loc[th[t].loc].column) /\ th'[t] # th[t])
                => /\ console' = console
                   /\ loc' = loc
                   /\ th'[t].pc = IF Fatal(th[t].loc) THEN "ubsan_panic" ELSE "caller"
          /\ (th[t].reported = "true" /\ th'[t] # th[t])
                => (console' = console /\ loc' = loc)]_vars

\* A non-fatal entry point has returned at once from an already reported
\* location, and a fatal one has gone from there into the halt.
C7_Witness ==
    /\ \E i \in Invs :
          /\ ~Fatal(Rec(i).site)
          /\ Rec(i).reported = "true" /\ ~Rec(i).cas /\ Rec(i).pc = "returned"
    /\ \E j \in Invs :
          /\ Fatal(Rec(j).site)
          /\ Rec(j).reported = "true" /\ ~Rec(j).cas /\ Rec(j).pc \in HaltPcs

\* C8 (column masking round trip): for a site whose emitted column c has bit
\* 31 clear, the column is c until the first report on it and from then on is
\* c with bit 31 set; masking the reported bit off always gives c.
C8_ColumnRoundTrip ==
    \A s \in Sites : InitClear(s) =>
        /\ loc[s].column = IF Winners(s) # {} THEN WithBit31(Col0(s)) ELSE Col0(s)
        /\ Winners(s) # {} => loc[s].column = or32(Col0(s), UBSAN_LOC_REPORTED)
        /\ and32(loc[s].column, not32(UBSAN_LOC_REPORTED)) = Col0(s)
        /\ Low31(loc[s].column) = Col0(s)

\* A site whose column is the largest 31-bit value has been reported.
C8_Witness ==
    \E s \in Sites :
        /\ Col0(s) = ColMax
        /\ Winners(s) # {}
        /\ Bit31(loc[s].column)

\* The sites on which an entry point has been invoked.
InvokedSites == {Rec(i).site : i \in Invs}

\* C9 (one line per distinct call site): with should_panic false, all
\* reported bits initially clear and only non-fatal entry points invoked, the
\* console never holds more lines than there are sites invoked, holds exactly
\* that many whenever no invocation is in progress, holds at most one line
\* per site, and the reported bit of a site is set only if that site was
\* invoked.
C9_OneLinePerSite ==
    (/\ ~should_panic
     /\ \A s \in Sites : InitClear(s)
     /\ \A i \in Invs : ~Fatal(Rec(i).site))
    => /\ Len(console) <= Cardinality(InvokedSites)
       /\ (\A t \in Threads : ~InFlight(t)) => Len(console) = Cardinality(InvokedSites)
       /\ \A s \in Sites : Cardinality(LinesOn(s)) <= 1
       /\ \A s \in Sites : Bit31(loc[s].column) => s \in InvokedSites

\* Two different fresh sites were invoked, all calls have returned, and the
\* console holds one line for each.
C9_Witness ==
    /\ ~should_panic
    /\ \A s \in Sites : InitClear(s) /\ ~Fatal(s)
    /\ \A t \in Threads : ~InFlight(t)
    /\ Cardinality(InvokedSites) = 2
    /\ Len(console) = 2

\* What an invocation was given, and what it did.
Input(i) ==
    [column |-> Rec(i).column,
     file_name |-> prog[Rec(i).site].loc.file_name,
     line |-> prog[Rec(i).site].loc.line]
Output(i) ==
    [column |-> loc[Rec(i).site].column,
     lines |-> {[file_name |-> console[n].file_name, line |-> console[n].line,
                 column |-> console[n].column] : n \in LinesOf(i)},
     exit |-> IF Rec(i).pc = "returned" THEN "return" ELSE "halt"]

\* The outcome of a non-fatal entry point as a function of the location word
\* it observed at its test-and-set, the location's file and line, and
\* should_panic.
Outcome(in) ==
    IF Bit31(in.column)
    THEN [column |-> in.column, lines |-> {}, exit |-> "return"]
    ELSE [column |-> WithBit31(in.column),
          lines |-> {[file_name |-> in.file_name, line |-> in.line,
                      column |-> in.column]},
          exit |-> IF should_panic THEN "halt" ELSE "return"]

\* The non-fatal invocations that have returned or entered ubsan_panic.
DecidedNonFatal ==
    {i \in Invs : ~Fatal(Rec(i).site) /\ Rec(i).pc \in {"returned"} \cup PanicPcs}

\* C10 (legacy/current equivalence, payload independence): any two non-fatal
\* invocations, __ubsan_handle_type_mismatch and
\* __ubsan_handle_type_mismatch_v1 among them, that observed the same
\* location state under the same should_panic leave the same column, write
\* the same file, line and column or nothing, and both return or both halt;
\* that outcome is the function Outcome of the location state and
\* should_panic alone, whatever the operands and the payload.
C10_SameOutcome ==
    /\ \A i \in DecidedNonFatal : Output(i) = Outcome(Input(i))
    /\ \A i, j \in DecidedNonFatal : Input(i) = Input(j) => Output(i) = Output(j)

\* __ubsan_handle_type_mismatch and __ubsan_handle_type_mismatch_v1 have both
\* reported a fresh location with the same file, line and column.
C10_Witness ==
    \E i, j \in DecidedNonFatal :
        /\ prog[Rec(i).site].func = func_type_mismatch
        /\ prog[Rec(j).site].func = func_type_mismatch_v1
        /\ Input(i) = Input(j)
        /\ Rec(i).reported = "false" /\ Rec(j).reported = "false"
        /\ prog[Rec(i).site].payload # prog[Rec(j).site].payload

\* The invocation context t is executing, and the lines it has written.
Current(t) == <<t, Len(done[t]) + 1>>

\* C11 (emit before halt): an invocation that found its location not yet
\* reported is inside ubsan_panic only after it has written exactly one line,
\* and that line is the one for its location; the step that invokes the halt
\* primitive writes nothing, so the line precedes the primitive.  In
\* particular a fatal entry point called on a fresh location has written
\* exactly one line when it halts, for either value of should_panic.
C11_EmitBeforeHalt ==
    /\ [](\A i \in Invs :
             (Rec(i).reported = "false" /\ Rec(i).pc \in PanicPcs)
                => /\ Cardinality(LinesOf(i)) = 1
                   /\ \A n \in LinesOf(i) : console[n].site = Rec(i).site)
    /\ [][\A t \in Threads :
             (th[t].pc = "ubsan_panic" /\ th'[t].pc = "primitive"
                /\ th[t].reported = "false")
             => /\ Cardinality(LinesOf(Current(t))) = 1
                /\ console' = console]_vars

\* A fatal entry point called on a fresh location has written its one line
\* and is in the halt, with should_panic false.
C11_Witness ==
    /\ ~should_panic
    /\ \E t \in Threads :
          /\ InFlight(t)
          /\ Fatal(th[t].loc) /\ InitClear(th[t].loc)
          /\ th[t].reported = "false"
          /\ th[t].pc \in HaltPcs
          /\ Cardinality(LinesOf(Current(t))) = 1
          /\ Cardinality(LinesOn(th[t].loc)) = 1

\* C12 (location frame and monotonic flag): for every location, whether or
\* not its reported bit was set at the start, file_name, line and the low 31
\* bits of column always equal the values the compiler emitted; a step that
\* writes a location changes one location only, and changes it by bit 31 of
\* column going from 0 to 1; a reported bit that is set stays set; the
\* descriptors are never written.
C12_LocationFrame ==
    /\ [](\A s \in Sites :
             /\ loc[s].file_name = prog[s].loc.file_name
             /\ loc[s].line = prog[s].loc.line
             /\ Low31(loc[s].column) = Low31(Col0(s))
             /\ Bit31(Col0(s)) => loc[s] = prog[s].loc)
    /\ [][/\ prog' = prog
          /\ \A s \in Sites : Bit31(loc[s].column) => Bit31(loc'[s].column)
          /\ loc' # loc =>
                \E s \in Sites :
                   /\ ~Bit31(loc[s].column) /\ Bit31(loc'[s].column)
                   /\ loc'[s].column = WithBit31(loc[s].column)
                   /\ \A r \in Sites \ {s} : loc'[r] = loc[r]]_vars

\* Two contexts raced on a site whose column has bits in both halves of the
\* word; both have finished, the site's bit 31 is set and the other site of
\* the program is untouched.
C12_Witness ==
    \E s \in Sites :
        /\ Col0(s) = U32(1, 5)
        /\ loc[s].column = U32(2^15 + 1, 5)
        /\ \E i, j \in InvsOn(s) : i[1] # j[1] /\ Finished(i) /\ Finished(j)
        /\ \A r \in Sites \ {s} : loc[r] = prog[r].loc

\* C13 (report core on an already-flagged location): when ubsan_handle_error
\* reads a column whose bit 31 is set, whether an earlier report set it or
\* the compiler-emitted value had it, it returns to the entry point that
\* called it without writing the location, without writing a line and
\* without calling ubsan_panic, whatever its panic_flag: with panic_flag true
\* control is back in the instrumented caller, and the only ubsan_panic that
\* can follow is the entry point's own trailing call, made with panic_flag
\* false.  Such an invocation never writes a line later either.
C13_AlreadyFlagged ==
    /\ [][\A t \in Threads :
             (th[t].pc = "war_load" /\ Bit31(loc[th[t].loc].column)
                /\ th'[t] # th[t])
             => /\ loc' = loc
                /\ console' = console
                /\ th[t].panic_flag => th'[t].pc = "caller"
                /\ \/ th'[t].pc = "caller" /\ th[t].cont = "return"
                   \/ /\ th'[t].pc = "ubsan_panic" /\ th[t].cont = "ubsan_panic"
                      /\ ~th[t].panic_flag /\ th'[t].prims = <<>>]_vars
    /\ [](\A i \in Invs :
             (Rec(i).reported = "true" /\ ~Rec(i).cas) => LinesOf(i) = {})

\* On locations whose emitted columns already have bit 31 set, the report
\* core was called with panic_flag true (a non-fatal entry point, should_panic
\* true) and returned to the caller, and was called with panic_flag false (a
\* fatal entry point) and returned into that entry point's ubsan_panic();
\* nothing was written.
C13_Witness ==
    /\ should_panic
    /\ console = <<>>
    /\ \A s \in Sites : loc[s] = prog[s].loc
    /\ \E i, j \in Invs :
          /\ ~InitClear(Rec(i).site) /\ ~Fatal(Rec(i).site)
          /\ Rec(i).reported = "true" /\ Rec(i).pc = "returned"
          /\ ~InitClear(Rec(j).site) /\ Fatal(Rec(j).site)
          /\ Rec(j).reported = "true" /\ Rec(j).pc \in HaltPcs

\* The text every entry point's name starts with.
HandlerPrefix == <<"_","_","u","b","s","a","n","_","h","a","n","d","l","e","_">>

\* C14 (emitted content): every line on the console carries the name of the
\* entry point invoked on its call site with the leading "__ubsan_handle_"
\* removed (and nothing else removed), the file name and the line number the
\* compiler emitted for the site, and a column with bit 31 clear that equals
\* the site's original column, under every interleaving.
C14_EmittedContent ==
    \A n \in DOMAIN console :
        LET l == console[n]
            s == l.site
        IN  /\ l.f.str = prog[s].func
            /\ Chars(prog[s].func) = HandlerPrefix \o StrAt(l.f)
            /\ StrAt(l.f) # <<>>
            /\ l.file_name = prog[s].loc.file_name
            /\ l.line = prog[s].loc.line
            /\ ~Bit31(l.column)
            /\ l.column = Low31(Col0(s))
            /\ InitClear(s) => l.column = Col0(s)

\* Two contexts raced on the site whose column is the largest 31-bit value;
\* the one line written says mul_overflow, a.c, 10 and that column, while the
\* column in memory has bit 31 set.
C14_Witness ==
    \E n \in DOMAIN console :
        /\ StrAt(console[n].f) = <<"m","u","l","_","o","v","e","r","f","l","o","w">>
        /\ console[n].file_name = "a.c" /\ console[n].line = 10
        /\ console[n].column = ColMax
        /\ Bit31(loc[console[n].site].column)
        /\ \E j \in InvsOn(console[n].site) :
              j[1] # console[n].by /\ Rec(j).reported = "true"

\* The statements of one invocation in program order, and the positions at
\* which an invocation still has a statement of the runtime to execute.
Rank(pc) ==
    CASE pc = "caller" -> 0
      [] pc = "war_load" -> 1
      [] pc = "war_cas" -> 2
      [] pc = "emsg" -> 3
      [] pc = "ubsan_panic" -> 4
      [] pc = "primitive" -> 5
      [] pc = "while1" -> 6
RunPcs == {"war_load", "war_cas", "emsg", "ubsan_panic"}

\* C15 (wait-freedom): an invocation that has not finished can always take
\* its next step, whatever the other contexts are doing; each of its steps
\* either returns to the caller or moves it strictly forward in program
\* order, so the compare-and-swap is executed at most once and the
\* invocation has returned or entered the halt after at most four steps of
\* its own; a step of one context never changes another context's frame;
\* and a context that keeps taking its steps does finish.
C15_WaitFree ==
    /\ [](\A t \in Threads : th[t].pc \in RunPcs => ENABLED Step(t))
    /\ [][\A t \in Threads :
             (InFlight(t) /\ th'[t] # th[t])
             => \/ th'[t].pc = "caller"
                \/ Rank(th'[t].pc) > Rank(th[t].pc)]_vars
    /\ [][\A t, u \in Threads :
             (th'[t] # th[t] /\ th'[u] # th[u]) => t = u]_vars
    /\ []<>(\A t \in Threads : InFlight(t) => th[t].pc \in HaltPcs)

\* A context lost the compare-and-swap to another context that is still in
\* the middle of its own invocation, and has already returned.
C15_Witness ==
    \E t, u \in Threads :
        /\ t # u
        /\ ~InFlight(t) /\ Len(done[t]) = 1
        /\ done[t][1].reported = "true" /\ done[t][1].cas
        /\ th[u].pc = "emsg" /\ th[u].loc = done[t][1].site

\* C16 (policy flag lifecycle): in the code as built should_panic is true
\* in the initial state and in every state after it, and no step of an entry
\* point, of the reporter or of the halt changes it.  Consequently a non-fatal invocation that writes a line goes
\* from the emission straight to ubsan_panic, is never seen returned after
\* having written, and goes on to invoke the halt primitive.
C16_PolicyFlagLifecycle ==
    /\ [](should_panic = TRUE)
    /\ [][should_panic' = should_panic]_vars
    /\ [](\A i \in Invs :
             (~Fatal(Rec(i).site) /\ LinesOf(i) # {}) => Rec(i).pc \in PanicPcs)
    /\ [][\A t \in Threads :
             (th[t].pc = "emsg" /\ ~Fatal(th[t].loc) /\ th'[t] # th[t])
             => /\ th[t].panic_flag
                /\ Len(console') = Len(console) + 1
                /\ th'[t].pc = "ubsan_panic"]_vars
    /\ []<>(\A t \in Threads :
               (InFlight(t) /\ ~Fatal(th[t].loc) /\ LinesOf(Current(t)) # {})
               => th[t].pc \in HaltPcs /\ Len(th[t].prims) = 1)

\* A non-fatal entry point has written its line and its invocation has
\* invoked the halt primitive, which has not returned.
C16_Witness ==
    /\ should_panic
    /\ \E t \in Threads :
          /\ InFlight(t) /\ ~Fatal(th[t].loc)
          /\ Cardinality(LinesOf(Current(t))) = 1
          /\ th[t].pc = "primitive" /\ Len(th[t].prims) = 1

\* The invocations for which was_already_reported returned true.
Suppressed(s) == {i \in InvsOn(s) : Rec(i).reported = "true"}

C18_PrimitiveSelection ==
    /\ [](\A t \in Threads :
             /\ th[t].pc \notin HaltPcs => th[t].prims = <<>>
             /\ th[t].pc \in HaltPcs =>
                   /\ Len(th[t].prims) = 1
                   /\ ctx = "__KERNEL__" =>
                         th[t].prims[1] = [name |-> "panic", arg |-> "none"]
                   /\ ctx = "__LDELF__" =>
                         th[t].prims[1] = [name |-> "_ldelf_panic", arg |-> "2"]
                   /\ ctx = "TA" =>
                         th[t].prims[1] = [name |-> "_utee_panic",
                                           arg |-> "TEE_ERROR_GENERIC"])
    /\ [][/\ ctx' = ctx
          /\ \A t \in Threads :
                th'[t].prims # th[t].prims =>
                   th[t].pc = "ubsan_panic" /\ th'[t].pc = "primitive"]_vars

\* In the loader build the primitive _ldelf_panic(2) was invoked once, it
\* returned, and the context is in the idle loop.
C18_Witness ==
    /\ ctx = "__LDELF__"
    /\ \E t \in Threads :
          /\ th[t].pc = "while1"
          /\ th[t].prims = <<[name |-> "_ldelf_panic", arg |-> "2"]>>

====
